---------------------------- MODULE Spec2Model ----------------------------
(***************************************************************************)
(* ReadTheDocsLoader (langchain/document_loaders/readthedocs.py).          *)
(*                                                                         *)
(* A string is a sequence of one-character strings, so that split, strip,  *)
(* join and len are computed character by character.  A node of the parsed *)
(* page is a record [name, attrs, s, children]: a text node has the name   *)
(* "#text", a comment "#comment", an element its tag name; attrs is a set  *)
(* of <<key, value>> pairs.                                                *)
(***************************************************************************)
EXTENDS Integers, Sequences, FiniteSets, TLC

VARIABLES
    page,       \* _clean_data: the parsed page (soup)
    custom,     \* self.custom_html_tag (NoSelector when None)
    exclude,    \* self.exclude_index_pages
    pc,         \* position of the operation under way
    section,    \* _clean_data: `text` after the selector loop (NoneVal when None)
    ratio,      \* _clean_data: what _get_link_ratio returned, if it was called
    raw,        \* _clean_data: `text` before the empty lines are trimmed
    out,        \* _clean_data: the returned string
    fs,         \* load: the entries under self.file_path, in the walker's order
    patterns,   \* self.patterns
    pi,         \* load: index of the pattern of the outer loop
    pending,    \* load: what rglob(file_pattern) has still to yield
    docs        \* load: the list `docs`

vars == <<page, custom, exclude, pc, section, ratio, raw, out,
          fs, patterns, pi, pending, docs>>

-----------------------------------------------------------------------------
(* Bounds *)

\* nodes below the root of a page whose elements are main-content candidates
MaxPageNodes == 3

\* nodes below the <div role="main"> of a page with structured content
MaxSectionNodes == 3

\* length of a string handed to the empty-line trimming
MaxLen == 5

\* number of patterns in self.patterns
MaxPatterns == 2

-----------------------------------------------------------------------------
(* Strings *)

NL == "\n"

Whitespace == {" ", NL, "\t"}

RECURSIVE Concat(_)
\* "".join(parts)
Concat(parts) ==
    IF parts = <<>> THEN <<>> ELSE Head(parts) \o Concat(Tail(parts))

RECURSIVE LStrip(_)
LStrip(s) ==
    IF s # <<>> /\ Head(s) \in Whitespace THEN LStrip(Tail(s)) ELSE s

RECURSIVE RStrip(_)
RStrip(s) ==
    IF s # <<>> /\ s[Len(s)] \in Whitespace
    THEN RStrip(SubSeq(s, 1, Len(s) - 1))
    ELSE s

\* str.strip()
Strip(s) == RStrip(LStrip(s))

RECURSIVE Split(_)
\* text.split("\n"): one more segment than there are newlines
Split(s) ==
    IF s = <<>> THEN << <<>> >>
    ELSE LET rest == Split(Tail(s))
         IN  IF Head(s) = NL
             THEN << <<>> >> \o rest
             ELSE << <<Head(s)>> \o Head(rest) >> \o Tail(rest)

RECURSIVE Join(_)
\* "\n".join(parts)
Join(parts) ==
    IF parts = <<>> THEN <<>>
    ELSE IF Len(parts) = 1 THEN Head(parts)
    ELSE Head(parts) \o <<NL>> \o Join(Tail(parts))

-----------------------------------------------------------------------------
(* The page tree *)

Text(s) == [name |-> "#text", attrs |-> {}, s |-> s, children |-> <<>>]

Comment(s) == [name |-> "#comment", attrs |-> {}, s |-> s, children |-> <<>>]

El(name, attrs, children) ==
    [name |-> name, attrs |-> attrs, s |-> <<>>, children |-> children]

\* Python's None where an element is expected
NoneVal == [name |-> "#none", attrs |-> {}, s |-> <<>>, children |-> <<>>]

\* custom_html_tag = None
NoSelector == [tag |-> "#none", attrs |-> {}]

IsComment(el) == el.name = "#comment"

IsNavigableString(el) == el.name \in {"#text", "#comment"}

RECURSIVE Descendants(_)
RECURSIVE DescendantsOfAll(_)
\* el.descendants: every node below el, in document order
Descendants(el) == DescendantsOfAll(el.children)

DescendantsOfAll(kids) ==
    IF kids = <<>> THEN <<>>
    ELSE <<Head(kids)>> \o Descendants(Head(kids)) \o DescendantsOfAll(Tail(kids))

\* does element el satisfy find(tag, attrs)
Matches(sel, el) == el.name = sel.tag /\ sel.attrs \subseteq el.attrs

\* soup.find(tag, attrs): the first descendant that matches, or None
Find(sel, soup) ==
    LET hits == SelectSeq(Descendants(soup), LAMBDA el : Matches(sel, el))
    IN  IF hits = <<>> THEN NoneVal ELSE Head(hits)

\* section.find_all("a")
FindAllLinks(el) == SelectSeq(Descendants(el), LAMBDA d : d.name = "a")

\* el.strings: the text nodes below el (comments are not among them); the
\* text inside a <script> is taken as an ordinary string, as html.parser
\* trees of bs4 before 4.9 give it, which is the larger set of strings
Strings(el) == SelectSeq(Descendants(el), LAMBDA d : d.name = "#text")

RECURSIVE MapStrip(_)
MapStrip(nodes) ==
    IF nodes = <<>> THEN <<>>
    ELSE <<Strip(Head(nodes).s)>> \o MapStrip(Tail(nodes))

\* el.stripped_strings: the stripped strings that are not empty
StrippedStrings(el) == SelectSeq(MapStrip(Strings(el)), LAMBDA t : t # <<>>)


-----------------------------------------------------------------------------
(* _get_link_ratio *)

RECURSIVE LinkStrings(_)
\* the strings of every link, link by link: `for link in links for string in
\* link.strings if string`, each stripped
LinkStrings(links) ==
    IF links = <<>> THEN <<>>
    ELSE MapStrip(SelectSeq(Strings(Head(links)), LAMBDA d : d.s # <<>>))
         \o LinkStrings(Tail(links))

\* ReadTheDocsLoader._get_link_ratio: the quotient as numerator and denominator
GetLinkRatio(sec) ==
    LET links      == FindAllLinks(sec)
        total_text == Concat(StrippedStrings(sec))
        link_text  == Concat(LinkStrings(links))
    IN  IF Len(total_text) = 0
        THEN [num |-> 0, den |-> 1]
        ELSE [num |-> Len(link_text), den |-> Len(total_text)]

\* ratio > 0.5, one half let through
MoreThanHalf(r) == 2 * r.num > r.den

\* ratio >= 0.5
AtLeastHalf(r) == 2 * r.num >= r.den

\* the value of `ratio` while _get_link_ratio has not been called
NotCalled == [num |-> -1, den |-> 1]

-----------------------------------------------------------------------------
(* _get_clean_text *)

elements_to_skip ==
    {"script", "noscript", "canvas", "meta", "svg", "map", "area", "audio",
     "source", "track", "video", "embed", "object", "param", "picture",
     "iframe", "frame", "frameset", "noframes", "applet", "form", "button",
     "select", "base", "style", "img"}

newline_elements ==
    {"p", "div", "ul", "ol", "li", "h1", "h2", "h3", "h4", "h5", "h6", "pre",
     "table", "tr"}

\* only comments dropped, the skip list not consulted
IsSkippedCommentOnly(el) == IsComment(el)

\* process_element, first branch: the node contributes nothing
IsSkipped(el) == IsComment(el) \/ el.name \in elements_to_skip

\* no newline after a block element
NoDelimiter(tag_name) == <<>>

\* process_element, last two branches: what follows the children's text
Delimiter(tag_name) == IF tag_name \in newline_elements THEN <<NL>> ELSE <<>>

RECURSIVE process_element(_)
RECURSIVE ProcessChildren(_)
process_element(el) ==
    IF IsSkipped(el) THEN <<>>
    ELSE IF IsNavigableString(el) THEN el.s
    ELSE IF el.name = "br" THEN <<NL>>
    ELSE ProcessChildren(el.children) \o Delimiter(el.name)

\* "".join(process_element(child) for child in el.children)
ProcessChildren(kids) ==
    IF kids = <<>> THEN <<>>
    ELSE process_element(Head(kids)) \o ProcessChildren(Tail(kids))

\* ReadTheDocsLoader._get_clean_text
GetCleanText(element) == process_element(element)

-----------------------------------------------------------------------------
(* _clean_data *)

DivRoleMain == [tag |-> "div", attrs |-> {<<"role", "main">>}]

MainIdMainContent == [tag |-> "main", attrs |-> {<<"id", "main-content">>}]

\* the default tags, in the order the list literal gives them
DefaultTags == <<DivRoleMain, MainIdMainContent>>

\* html_tags, the custom tag appended when there is one
HtmlTags(customSel) ==
    IF customSel # NoSelector THEN Append(DefaultTags, customSel) ELSE DefaultTags

\* html_tags[::-1]
Reversed(seq) == [i \in 1..Len(seq) |-> seq[Len(seq) + 1 - i]]

\* the selectors tried in the order of the list, the reversal forgotten
SearchOrderForward(customSel) == HtmlTags(customSel)

\* the order in which the loop tries the selectors
SearchOrder(customSel) == Reversed(HtmlTags(customSel))

\* `if text is not None: break`
Found(el) == el # NoneVal

RECURSIVE LocateLoop(_, _)
\* the selector loop: `text` when the loop ends
LocateLoop(tags, soup) ==
    IF tags = <<>> THEN NoneVal
    ELSE LET text == Find(Head(tags), soup)
         IN  IF Found(text) THEN text
             ELSE IF Len(tags) = 1 THEN text
             ELSE LocateLoop(Tail(tags), soup)

\* `if t.strip()`: whitespace-only segments dropped too
KeepSegmentStripped(t) == Strip(t) # <<>>

\* `if t`: the segments the trimming keeps
KeepSegment(t) == t # <<>>

\* "\n".join([t for t in text.split("\n") if t])
TrimEmptyLines(text) == Join(SelectSeq(Split(text), KeepSegment))

\* ReadTheDocsLoader._clean_data, with the values of its locals
CleanData(soup, customSel, excl) ==
    LET text    == LocateLoop(SearchOrder(customSel), soup)
        called  == text # NoneVal /\ excl
        r       == IF called THEN GetLinkRatio(text) ELSE NotCalled
        extract == text # NoneVal /\ ~(excl /\ AtLeastHalf(r))
        cleaned == IF extract THEN GetCleanText(text) ELSE <<>>
    IN  [section |-> text, ratio |-> r, raw |-> cleaned,
         out |-> TrimEmptyLines(cleaned)]

-----------------------------------------------------------------------------
(* The pages and strings the operations are applied to *)

RECURSIVE ForestExact(_, _, _)
RECURSIVE TreeExact(_, _, _)
\* the trees of exactly k nodes: leaves, and elements of the menu over forests
TreeExact(leaves, menu, k) ==
    IF k = 1
    THEN leaves \cup {El(m.name, m.attrs, <<>>) : m \in menu}
    ELSE {El(m.name, m.attrs, f) :
              m \in menu, f \in ForestExact(leaves, menu, k - 1)}

\* the sequences of trees of exactly n nodes in all
ForestExact(leaves, menu, n) ==
    IF n = 0 THEN {<<>>}
    ELSE UNION {{<<t>> \o r : t \in TreeExact(leaves, menu, k),
                              r \in ForestExact(leaves, menu, n - k)} :
                k \in 1..n}

Forests(leaves, menu, n) == UNION {ForestExact(leaves, menu, i) : i \in 0..n}

\* the BeautifulSoup object: the root above the parsed nodes
Soup(kids) == El("[document]", {}, kids)

SectionClassMain == [tag |-> "section", attrs |-> {<<"class", "main">>}]

AnyDiv == [tag |-> "div", attrs |-> {}]

\* the values of custom_html_tag
Customs == {NoSelector, SectionClassMain, AnyDiv}

\* the elements a selector can be about
CandidateMenu ==
    {[name |-> "div",     attrs |-> {<<"role", "main">>}],
     [name |-> "main",    attrs |-> {<<"id", "main-content">>}],
     [name |-> "section", attrs |-> {<<"class", "main">>}],
     [name |-> "article", attrs |-> {<<"role", "main">>}],
     [name |-> "div",     attrs |-> {<<"role", "navigation">>}]}

CandidateLeaves == {Text(<<"a">>), Text(<<"b">>)}

\* pages of main-content candidates, nested and side by side, empty or not
CandidatePages ==
    {Soup(f) : f \in Forests(CandidateLeaves, CandidateMenu, MaxPageNodes)}

\* the elements of structured content: block, transparent, link, skipped
ContentMenu ==
    {[name |-> "p",      attrs |-> {}],
     [name |-> "span",   attrs |-> {}],
     [name |-> "a",      attrs |-> {<<"href", "x">>}],
     [name |-> "script", attrs |-> {}]}

ContentLeaves ==
    {Text(<<"a">>), Text(<<" ", "b">>), Comment(<<"c">>), El("br", {}, <<>>)}

MainDiv(kids) == El("div", {<<"role", "main">>}, kids)

\* <div role="main"><p>Hello</p><p>World</p></div>
HelloWorldPage ==
    Soup(<<MainDiv(<<El("p", {}, <<Text(<<"H", "e", "l", "l", "o">>)>>),
                     El("p", {}, <<Text(<<"W", "o", "r", "l", "d">>)>>)>>)>>)

\* <div role="main"><a href="x">All text</a></div>
AllLinkPage ==
    Soup(<<MainDiv(<<El("a", {<<"href", "x">>},
                        <<Text(<<"A", "l", "l", " ", "t", "e", "x", "t">>)>>)>>)>>)

\* a <div role="main"> above structured content
ContentPages ==
    {Soup(<<MainDiv(f)>>) : f \in Forests(ContentLeaves, ContentMenu, MaxSectionNodes)}
    \cup {HelloWorldPage, AllLinkPage}

Chars == {"a", " ", NL}

RECURSIVE StringsUpTo(_)
StringsUpTo(n) ==
    IF n = 0 THEN {<<>>}
    ELSE LET shorter == StringsUpTo(n - 1)
         IN  shorter \cup {Append(s, c) : s \in shorter, c \in Chars}

-----------------------------------------------------------------------------
(* _clean_data applied to a page *)

LoadIdle ==
    /\ fs = <<>>
    /\ patterns = <<>>
    /\ pi = 0
    /\ pending = <<>>
    /\ docs = <<>>

CleanIdle ==
    /\ section = NoneVal
    /\ ratio = NotCalled
    /\ raw = <<>>
    /\ out = <<>>

Init ==
    /\ pc = "clean"
    /\ \/ page \in CandidatePages /\ custom \in Customs
       \/ page \in ContentPages /\ custom = NoSelector
    /\ exclude \in BOOLEAN
    /\ CleanIdle
    /\ LoadIdle

\* one call of self._clean_data(data), data parsed into `page`
CleanDataCall ==
    /\ pc = "clean"
    /\ LET r == CleanData(page, custom, exclude)
       IN  /\ section' = r.section
           /\ ratio' = r.ratio
           /\ raw' = r.raw
           /\ out' = r.out
    /\ pc' = "cleaned"
    /\ UNCHANGED <<page, custom, exclude, fs, patterns, pi, pending, docs>>

Next == CleanDataCall

Spec == Init /\ [][Next]_vars

-----------------------------------------------------------------------------
(* The trimming of empty lines applied to a string *)

InitTrim ==
    /\ pc = "trim"
    /\ raw \in StringsUpTo(MaxLen)
    /\ out = <<>>
    /\ page = Soup(<<>>)
    /\ custom = NoSelector
    /\ exclude = FALSE
    /\ section = NoneVal
    /\ ratio = NotCalled
    /\ LoadIdle

\* the last statement of _clean_data
TrimCall ==
    /\ pc = "trim"
    /\ out' = TrimEmptyLines(raw)
    /\ pc' = "trimmed"
    /\ UNCHANGED <<page, custom, exclude, section, ratio, raw,
                   fs, patterns, pi, pending, docs>>

NextTrim == TrimCall

SpecTrim == InitTrim /\ [][NextTrim]_vars

-----------------------------------------------------------------------------
(* Properties of _clean_data *)

\* some element of the page satisfies the selector
HasMatch(sel) ==
    \E i \in 1..Len(Descendants(page)) : Matches(sel, Descendants(page)[i])

\* the first element of the page, in document order, that satisfies the selector
FirstMatch(sel) ==
    LET D == Descendants(page)
    IN  D[CHOOSE i \in 1..Len(D) :
              /\ Matches(sel, D[i])
              /\ \A j \in 1..(i - 1) : ~Matches(sel, D[j])]

CustomMatches == custom # NoSelector /\ HasMatch(custom)

\* the subtree was found and the link-ratio filter did not reject it
Extracted ==
    /\ pc = "cleaned"
    /\ section # NoneVal
    /\ ~(exclude /\ 2 * ratio.num >= ratio.den)

\* the selector whose match the priority order custom, main[id=main-content],
\* div[role=main] designates
Designated ==
    IF CustomMatches THEN custom
    ELSE IF HasMatch(MainIdMainContent) THEN MainIdMainContent
    ELSE DivRoleMain

\* C1: the main subtree is the match of the highest-priority selector that
\* matches anything, in the order custom selector, main[id=main-content],
\* div[role=main], and the text is extracted from that element; a custom
\* selector that matches wins over both defaults.
C1_SelectorPriority ==
    pc = "cleaned" =>
        /\ HasMatch(Designated) =>
               /\ section = FirstMatch(Designated)
               /\ Extracted => raw = GetCleanText(FirstMatch(Designated))
        /\ CustomMatches => Matches(custom, section)

\* C1 witness: the custom selector and both defaults match elements of the
\* page, and the text comes out of the custom one
C1_Witness ==
    /\ pc = "cleaned"
    /\ custom = SectionClassMain
    /\ HasMatch(custom)
    /\ HasMatch(DivRoleMain)
    /\ section.name = "section"
    /\ out # <<>>

\* no selector of the search order matches any element
NothingMatches ==
    /\ ~CustomMatches
    /\ ~HasMatch(MainIdMainContent)
    /\ ~HasMatch(DivRoleMain)

C3_RatioInUnitInterval ==
    (pc = "cleaned" /\ ratio # NotCalled) =>
        /\ 0 <= ratio.num
        /\ ratio.num <= ratio.den
        /\ StrippedStrings(section) = <<>> => ratio.num = 0

RECURSIVE Marked(_, _, _)
RECURSIVE MarkedAll(_, _, _)
\* the nodes of a subtree in document order, each with its depth and whether
\* it is a comment or it or one of its ancestors has a tag of the skip set
Marked(el, hiddenAbove, depth) ==
    LET h == hiddenAbove \/ el.name = "#comment" \/ el.name \in elements_to_skip
    IN  <<[node |-> el, hidden |-> h, depth |-> depth]>>
        \o MarkedAll(el.children, h, depth + 1)

MarkedAll(kids, hiddenAbove, depth) ==
    IF kids = <<>> THEN <<>>
    ELSE Marked(Head(kids), hiddenAbove, depth)
         \o MarkedAll(Tail(kids), hiddenAbove, depth)

RECURSIVE VisibleText(_)
\* the text of the text nodes that are not hidden, in document order
VisibleText(marks) ==
    IF marks = <<>> THEN <<>>
    ELSE (IF Head(marks).node.name = "#text" /\ ~Head(marks).hidden
          THEN Head(marks).node.s ELSE <<>>)
         \o VisibleText(Tail(marks))

\* the characters of a string that are not newlines
NoNewlines(s) == SelectSeq(s, LAMBDA c : c # NL)

\* C4: no text node under (or being) an element of the skip set and no comment
\* contributes a character to the extracted text, at any depth: the characters
\* of the extracted text are those of the other text nodes, in document order.
C4_SkippedNeverContribute ==
    Extracted =>
        NoNewlines(raw) = NoNewlines(VisibleText(Marked(section, FALSE, 0)))

\* C4 witness: text was extracted from a subtree that holds, two levels down,
\* a text node inside a skipped element
C4_Witness ==
    /\ Extracted
    /\ raw # <<>>
    /\ \E i \in 1..Len(Marked(section, FALSE, 0)) :
           LET m == Marked(section, FALSE, 0)[i]
           IN  m.hidden /\ m.node.name = "#text" /\ m.depth >= 3

\* the block set as the specification lists it
BlockSet ==
    {"p", "div", "ul", "ol", "li", "h1", "h2", "h3", "h4", "h5", "h6", "pre",
     "table", "tr"}

RECURSIVE ChildResults(_)
ChildResults(kids) ==
    IF kids = <<>> THEN <<>>
    ELSE process_element(Head(kids)) \o ChildResults(Tail(kids))

\* what C5 says process_element returns for one node
NodeResultAsSpecified(el) ==
    LET r == process_element(el)
    IN  /\ el.name = "#text" => r = el.s
        /\ el.name = "br" => r = <<NL>>
        /\ el.name \in BlockSet => r = ChildResults(el.children) \o <<NL>>
        /\ (/\ el.name \notin BlockSet \cup elements_to_skip
            /\ el.name \notin {"#text", "#comment", "br"}) =>
               r = ChildResults(el.children)

Hello == <<"H", "e", "l", "l", "o">>

World == <<"W", "o", "r", "l", "d">>

\* C5: process_element returns the literal text for a text node, one newline
\* for br, the children's results followed by exactly one newline for a block
\* element, the children's results alone for any other element that is not
\* skipped; <div role="main"><p>Hello</p><p>World</p></div> gives "Hello\nWorld".
C5_ProcessElementCases ==
    Extracted =>
        /\ raw = process_element(section)
        /\ NodeResultAsSpecified(section)
        /\ \A i \in 1..Len(Descendants(section)) :
               NodeResultAsSpecified(Descendants(section)[i])
        /\ page = HelloWorldPage =>
               /\ raw = Hello \o <<NL>> \o World \o <<NL, NL>>
               /\ out = Hello \o <<NL>> \o World

\* C5 witness: the Hello/World page has been cleaned
C5_Witness ==
    /\ pc = "cleaned"
    /\ page = HelloWorldPage
    /\ out = Hello \o <<NL>> \o World

ArticleRoleMain == [tag |-> "article", attrs |-> {<<"role", "main">>}]

\* C9: with no custom selector the defaults include <article role="main">: a
\* page whose only main container is an <article role="main"> with text is
\* located and yields that element's text.
C9_ArticleIsDefault ==
    (/\ pc = "cleaned"
     /\ custom = NoSelector
     /\ HasMatch(ArticleRoleMain)
     /\ ~HasMatch(MainIdMainContent)
     /\ ~HasMatch(DivRoleMain)
     /\ TrimEmptyLines(GetCleanText(FirstMatch(ArticleRoleMain))) # <<>>) =>
        /\ section = FirstMatch(ArticleRoleMain)
        /\ out = TrimEmptyLines(GetCleanText(FirstMatch(ArticleRoleMain)))

\* C10: the selectors are tried until one yields a result that is not empty:
\* when main[id=main-content] matches an element without text and
\* div[role=main] matches an element with text, the output is the text of the
\* div[role=main] element.
C10_ContinuesPastEmpty ==
    (/\ pc = "cleaned"
     /\ ~exclude
     /\ ~CustomMatches
     /\ HasMatch(MainIdMainContent)
     /\ TrimEmptyLines(GetCleanText(FirstMatch(MainIdMainContent))) = <<>>
     /\ HasMatch(DivRoleMain)
     /\ TrimEmptyLines(GetCleanText(FirstMatch(DivRoleMain))) # <<>>) =>
        out = TrimEmptyLines(GetCleanText(FirstMatch(DivRoleMain)))

-----------------------------------------------------------------------------
(* Properties of the trimming of empty lines *)

\* the segments of raw that are not the empty string
KeptSegments == SelectSeq(Split(raw), LAMBDA t : t # <<>>)

\* C6: the result is the sequence of the newline-separated segments of the
\* input with exactly the empty ones removed, in order, joined by single
\* newlines: it has no empty line, neither starts nor ends with a newline, and
\* keeps whitespace-only segments as they are.
C6_TrimEmptyLines ==
    pc = "trimmed" =>
        /\ KeptSegments = <<>> => out = <<>>
        /\ KeptSegments # <<>> => Split(out) = KeptSegments
        /\ out # <<>> => out[1] # NL /\ out[Len(out)] # NL
        /\ \A i \in 1..(Len(out) - 1) : ~(out[i] = NL /\ out[i + 1] = NL)
        /\ NoNewlines(out) = NoNewlines(raw)

\* C6 witness: "a\n\n \n" was trimmed to "a\n ": the empty segments went and
\* the segment of one space stayed
C6_Witness ==
    /\ pc = "trimmed"
    /\ raw = <<"a", NL, NL, " ", NL>>
    /\ out = <<"a", NL, " ">>

-----------------------------------------------------------------------------
(* load *)

\* An entry under self.file_path is a record [path, is_dir, content]: its path
\* below the root as a sequence of components, whether it is a directory, and
\* the parsed contents of a file.

\* the last component of the path
Name(e) == e.path[Len(e.path)]

RECURSIVE GlobMatch(_, _)
\* does the name match the pattern: "*" stands for any run of characters,
\* every other character for itself, and the whole name has to be matched
GlobMatch(pat, name) ==
    IF pat = <<>> THEN name = <<>>
    ELSE IF Head(pat) = "*"
         THEN \/ GlobMatch(Tail(pat), name)
              \/ name # <<>> /\ GlobMatch(pat, Tail(name))
         ELSE /\ name # <<>>
              /\ Head(name) = Head(pat)
              /\ GlobMatch(Tail(pat), Tail(name))

\* self.file_path.rglob(file_pattern): the entries, at any depth, whose name
\* matches, in the walker's order
Rglob(entries, file_pattern) ==
    SelectSeq(entries, LAMBDA e : GlobMatch(file_pattern, Name(e)))

\* self.file_path, as str() shows it
RootStr == <<"r", "t", "d">>

RECURSIVE PathStr(_)
\* str(p): the root and the components, separated by "/"
PathStr(path) ==
    IF path = <<>> THEN RootStr
    ELSE PathStr(SubSeq(path, 1, Len(path) - 1)) \o <<"/">> \o path[Len(path)]

\* Document(page_content=text, metadata={"source": str(p)})
Document(text, p) == [page_content |-> text, metadata |-> [source |-> PathStr(p)]]

\* docs.insert(0, ...)
PrependDoc(list, doc) == <<doc>> \o list

\* docs.append(...)
AppendDoc(list, doc) == Append(list, doc)

IndexHtmlName == <<"i", "n", "d", "e", "x", ".", "h", "t", "m", "l">>

ApiHtmName == <<"a", "p", "i", ".", "h", "t", "m">>

OldHtmlName == <<"o", "l", "d", ".", "h", "t", "m", "l">>

\* what can lie directly under the root: two files and a directory
RootPaths == {<<IndexHtmlName>>, <<ApiHtmName>>, <<OldHtmlName>>}

\* the paths that are directories
DirPaths == {<<OldHtmlName>>}

\* a file inside the directory, named like a file of the root
SubPath == <<OldHtmlName, IndexHtmlName>>

\* a page no selector matches
NoMainPage == Soup(<<El("p", {}, <<Text(<<"a">>)>>)>>)

\* the contents a file can have
FilePages == {HelloWorldPage, AllLinkPage, NoMainPage}

\* the orders in which a walker can list a set of paths
Orderings(S) ==
    {o \in [1..Cardinality(S) -> S] :
         \A i, j \in 1..Cardinality(S) : i # j => o[i] # o[j]}

\* the walks: the entries of the root in any order, then those of the
\* directory when it exists
Walks ==
    UNION {{o \o sub : o \in Orderings(S),
                       sub \in (IF <<OldHtmlName>> \in S
                                THEN {<<>>, <<SubPath>>} ELSE {<<>>})} :
           S \in SUBSET RootPaths}

\* the directory trees with a walk w: every file with contents
TreesOver(w) ==
    {[i \in 1..Len(w) |->
          [path |-> w[i], is_dir |-> w[i] \in DirPaths, content |-> c[i]]] :
     c \in {c \in [1..Len(w) -> FilePages \cup {Soup(<<>>)}] :
                \A i \in 1..Len(w) : (w[i] \in DirPaths) <=> (c[i] = Soup(<<>>))}}

FileSystems == UNION {TreesOver(w) : w \in Walks}

HtmPattern == <<"*", ".", "h", "t", "m">>

HtmlPattern == <<"*", ".", "h", "t", "m", "l">>

IndexPattern == <<"i", "n", "d", "e", "x", "*">>

PatternMenu == {HtmPattern, HtmlPattern, IndexPattern}

RECURSIVE PatternLists(_)
\* the lists of at most n patterns, no pattern twice
PatternLists(n) ==
    IF n = 0 THEN {<<>>}
    ELSE LET shorter == PatternLists(n - 1)
         IN  shorter \cup
             UNION {{Append(l, q) :
                         q \in {x \in PatternMenu :
                                    \A k \in 1..Len(l) : l[k] # x}} :
                    l \in shorter}

InitLoad ==
    /\ pc = "load"
    /\ fs \in FileSystems
    /\ patterns \in PatternLists(MaxPatterns)
    /\ exclude \in BOOLEAN
    /\ custom = NoSelector
    /\ page = Soup(<<>>)
    /\ CleanIdle
    /\ pi = 0
    /\ pending = <<>>
    /\ docs = <<>>

\* docs = []
LoadBegin ==
    /\ pc = "load"
    /\ docs' = <<>>
    /\ pi' = 0
    /\ pending' = <<>>
    /\ pc' = "patterns"
    /\ UNCHANGED <<page, custom, exclude, section, ratio, raw, out, fs, patterns>>

\* the outer loop takes the next pattern and starts rglob on it
NextPattern ==
    /\ pc = "patterns"
    /\ pending = <<>>
    /\ pi < Len(patterns)
    /\ pi' = pi + 1
    /\ pending' = Rglob(fs, patterns[pi + 1])
    /\ UNCHANGED <<page, custom, exclude, pc, section, ratio, raw, out,
                   fs, patterns, docs>>

\* `if p.is_dir(): continue`
SkipDirectory ==
    /\ pc = "patterns"
    /\ pending # <<>>
    /\ Head(pending).is_dir
    /\ pending' = Tail(pending)
    /\ UNCHANGED <<page, custom, exclude, pc, section, ratio, raw, out,
                   fs, patterns, pi, docs>>

\* the file is read, cleaned and appended as a Document
LoadFile ==
    /\ pc = "patterns"
    /\ pending # <<>>
    /\ ~Head(pending).is_dir
    /\ LET p    == Head(pending)
           text == CleanData(p.content, custom, exclude).out
       IN  docs' = AppendDoc(docs, Document(text, p.path))
    /\ pending' = Tail(pending)
    /\ UNCHANGED <<page, custom, exclude, pc, section, ratio, raw, out,
                   fs, patterns, pi>>

\* return docs
LoadReturn ==
    /\ pc = "patterns"
    /\ pending = <<>>
    /\ pi = Len(patterns)
    /\ pc' = "done"
    /\ UNCHANGED <<page, custom, exclude, section, ratio, raw, out,
                   fs, patterns, pi, pending, docs>>

NextLoad ==
    \/ LoadBegin
    \/ NextPattern
    \/ SkipDirectory
    \/ LoadFile
    \/ LoadReturn

SpecLoad == InitLoad /\ [][NextLoad]_vars

-----------------------------------------------------------------------------
(* Properties of load *)

\* the files (not directories) that match at least one pattern
MatchedFiles ==
    {i \in 1..Len(fs) :
         /\ ~fs[i].is_dir
         /\ \E k \in 1..Len(patterns) : GlobMatch(patterns[k], Name(fs[i]))}

\* C7: load returns exactly one document per matched file, also when two
\* patterns match the same file: as many documents as there are files
\* matching at least one pattern, no two with the same source.
C7_OneDocumentPerFile ==
    pc = "done" =>
        /\ Len(docs) = Cardinality(MatchedFiles)
        /\ \A i, j \in 1..Len(docs) :
               i # j => docs[i].metadata.source # docs[j].metadata.source

RECURSIVE DocsOfPattern(_, _)
\* the documents of the files among `entries` that match the pattern, in the
\* order of `entries`
DocsOfPattern(entries, pat) ==
    IF entries = <<>> THEN <<>>
    ELSE LET e == Head(entries)
         IN  (IF ~e.is_dir /\ GlobMatch(pat, Name(e))
              THEN <<[page_content |-> CleanData(e.content, custom, exclude).out,
                      metadata |-> [source |-> PathStr(e.path)]]>>
              ELSE <<>>)
             \o DocsOfPattern(Tail(entries), pat)

RECURSIVE DiscoveryOrder(_)
\* the documents in the order of discovery: pattern by pattern in list order,
\* and within a pattern in the walker's order
DiscoveryOrder(pats) ==
    IF pats = <<>> THEN <<>>
    ELSE DocsOfPattern(fs, Head(pats)) \o DiscoveryOrder(Tail(pats))

IsPrefix(a, b) == Len(a) <= Len(b) /\ a = SubSeq(b, 1, Len(a))

\* C8: the documents come in the order the matching files are discovered
\* (patterns in list order, within a pattern the walker's order), nothing is
\* reordered on the way, and each document's source is the path string of the
\* file its text was extracted from.
C8_DiscoveryOrder ==
    /\ IsPrefix(docs, DiscoveryOrder(patterns))
    /\ pc = "done" => docs = DiscoveryOrder(patterns)

\* C8 witness: load returned documents of two patterns, the first pattern
\* matching two files with different contents
C8_Witness ==
    /\ pc = "done"
    /\ Len(patterns) = 2
    /\ Len(DocsOfPattern(fs, patterns[1])) = 2
    /\ Len(DocsOfPattern(fs, patterns[2])) >= 1
    /\ Len(docs) >= 3
    /\ docs[1].page_content # docs[2].page_content
=============================================================================
